---- MODULE Spec2Model ----
(***************************************************************************)
(* Incident lifecycle of the Grinding Peru maintenance system.             *)
(*                                                                         *)
(* Two services own incidents:                                             *)
(*   - EnhancedIncidentManagementService (incident_management_enhanced.py) *)
(*     keeps the table "incidencias", the technicians' current_workload    *)
(*     in "users", "audit_logs" and "incident_comments";                   *)
(*   - IntelligentIncidentManager (intelligent_incident_management.py)     *)
(*     keeps the table "incidents" and "incident_performance".             *)
(* Every action below is one call of one public method, with the calls it  *)
(* makes into the store.  Time is a discrete clock; each datetime.now()    *)
(* of a handler is a separate read of it.                                  *)
(***************************************************************************)
EXTENDS Integers, Sequences, FiniteSets, TLC

VARIABLES
    clock,              \* the wall clock read by datetime.now()
    incidencias,        \* enhanced service: table "incidencias", id -> row
    current_workload,   \* enhanced service: users.current_workload of each technician
    audit_logs,         \* enhanced service: number of audit_logs rows per incident id
    incident_comments,  \* enhanced service: number of incident_comments rows per incident id
    incidents,          \* intelligent manager: table "incidents", id -> row
    incident_performance, \* intelligent manager: rows of "incident_performance", in order
    calls,              \* number of calls of the public methods made so far
    result,             \* the value returned by the last call
    is_trained,         \* PredictiveMaintenanceModel.is_trained
    model_files,        \* whether failure_predictor.joblib and scaler.joblib exist
    advanced_fitted,    \* whether AdvancedPredictiveMaintenance.train_models has fitted its models
    request,            \* the arguments of the last call of a predictor
    is_running,         \* MonitoringService.is_running
    monitoring_tasks,   \* MonitoringService.monitoring_tasks: where each task is
    orphan_tasks,       \* live tasks of each activity that monitoring_tasks no longer holds
    warnings,           \* "Monitoring is already running" lines logged
    worker              \* where each server process is in its call of create_incident

enhancedVars == <<clock, incidencias, current_workload, audit_logs, incident_comments>>
managerVars == <<incidents, incident_performance>>
predictorVars == <<is_trained, model_files, advanced_fitted, request>>
monitoringVars == <<is_running, monitoring_tasks, orphan_tasks, warnings>>
workerVars == <<worker>>

vars == <<clock, incidencias, current_workload, audit_logs, incident_comments,
          incidents, incident_performance, calls, result,
          is_trained, model_files, advanced_fitted, request,
          is_running, monitoring_tasks, orphan_tasks, warnings, worker>>

---------------------------------------------------------------------------
\* Bounds of the model

\* calls of the enhanced service's public methods in one behaviour
MaxCalls == 2
\* incidents created in one behaviour
MaxIncidents == 1
\* calls of the intelligent manager's public methods in one behaviour
MaxManagerCalls == 3
\* clock ticks in one hour (the clock's resolution)
TicksPerHour == 1
\* greatest users.current_workload the store holds when the service starts
MaxWorkload == 7
\* failures of one monitoring task that are counted (the count saturates)
MaxFailures == 1
\* calls of start_monitoring made while monitoring is running
MaxWarnings == 1
\* calls of create_incident made of the server processes in one behaviour
MaxWorkerCalls == 2
\* readings of one channel in a frame given to the trend analysis
MaxSeriesLen == 3

\* the clock runs until the shortest SLA has been breached
MaxClock == 2 * TicksPerHour + 1

NoTech == "none"
NoTime == -1

---------------------------------------------------------------------------
\* Enumerations of incident_management_enhanced.py

IncidentStatusValues == {"pendiente", "en_proceso", "finalizada", "cancelada"}

IncidentPriorityValues == {"critica", "alta", "media", "baja"}

\* self.sla_hours of EnhancedIncidentManagementService
sla_hours == [p \in IncidentPriorityValues |->
                CASE p = "critica" -> 2
                  [] p = "alta"    -> 8
                  [] p = "media"   -> 24
                  [] p = "baja"    -> 72]

\* _calculate_sla_deadline: created_at + timedelta(hours=sla_hours[priority])
CalculateSlaDeadline(priority, created_at) ==
    created_at + sla_hours[priority] * TicksPerHour

---------------------------------------------------------------------------
\* The rows of the table "users" (static part)

Users == {"admin1", "tec1", "tec2", "user1"}

Role == [u \in Users |->
            CASE u = "admin1" -> "administrador"
              [] u = "tec1"   -> "tecnico"
              [] u = "tec2"   -> "tecnico"
              [] u = "user1"  -> "usuario"]

Technicians == {u \in Users : Role[u] = "tecnico"}

\* strings are sequences of characters, so that `in` is the substring test
LocLima == <<"l">>
LocLimaNorte == <<"l", " ", "n">>
LocCallao == <<"c">>
LocArequipa == <<"a">>
Locations == {LocLima, LocLimaNorte, LocCallao, LocArequipa}

TechRow == [t \in Technicians |->
              IF t = "tec1"
              THEN [specialty |-> "hardware", max_workload |-> 2,
                    experience_years |-> 5, location |-> LocLima]
              ELSE [specialty |-> "otros", max_workload |-> 1,
                    experience_years |-> 0, location |-> LocCallao]]

Specialties == {"hardware", "red", "otros"}

\* the priorities requests are made with; "urgente" is not an IncidentPriority
PriorityInputs == {"critica", "baja", "urgente"}

\* Python's `a in b` on strings
IsSubstring(a, b) ==
    \E i \in 0..(Len(b) - Len(a)) : SubSeq(b, i + 1, i + Len(a)) = a

---------------------------------------------------------------------------
\* Helpers

Max(a, b) == IF a > b THEN a ELSE b
Min(a, b) == IF a < b THEN a ELSE b

\* the values a later datetime.now() can return after one that returned t:
\* the same tick or the next one
LaterReads(t) == t..Min(t + 1, MaxClock)

\* the orders in which the store can return the rows of a set
Orders(S) ==
    {o \in [1..Cardinality(S) -> S] : \A i, j \in DOMAIN o : i # j => o[i] # o[j]}

\* scores are fractions <<numerator, denominator>>, denominator > 0
ScoreGt(a, b) == a[1] * b[2] > b[1] * a[2]

---------------------------------------------------------------------------
\* EnhancedIncidentManagementService: automatic assignment

\* _get_available_technicians: active technicians whose specialty is the
\* required one, or all of them when the required specialty is "otros"
\* (a failed query gives the empty list, as a specialty nobody has does)
GetAvailableTechnicians(specialty) ==
    {t \in Technicians : TechRow[t].specialty = specialty \/ specialty = "otros"}

\* _calculate_technician_score, as the fraction score / 1
CalculateTechnicianScore(t, workload, ubicacion, required_specialty) ==
    LET row == TechRow[t]
        specialty_pts == IF row.specialty = required_specialty THEN 40
                         ELSE IF row.specialty # "otros" THEN 20 ELSE 0
        experience_pts == IF row.experience_years >= 5 THEN 20
                          ELSE IF row.experience_years >= 3 THEN 15
                          ELSE IF row.experience_years >= 1 THEN 10 ELSE 0
        location_pts == IF IsSubstring(row.location, ubicacion)
                           \/ IsSubstring(ubicacion, row.location)
                        THEN 10 ELSE 0
        den == IF row.max_workload > 0 THEN row.max_workload ELSE 1
        \* 30 * (1 - workload_ratio), workload_ratio = 0 when max_workload = 0
        workload_num == IF row.max_workload > 0
                        THEN 30 * (row.max_workload - workload)
                        ELSE 30
    IN  <<(specialty_pts + experience_pts + location_pts) * den + workload_num, den>>

\* the loop of _assign_technician_automatically over the rows in store order:
\* a technician replaces the best one only with a strictly greater score
RECURSIVE BestTechnicianLoop(_, _, _, _, _, _, _)
BestTechnicianLoop(order, i, best, best_score, workload, ubicacion, required) ==
    IF i > Len(order) THEN best
    ELSE LET score == CalculateTechnicianScore(order[i], workload[order[i]],
                                               ubicacion, required)
         IN  IF ScoreGt(score, best_score)
             THEN BestTechnicianLoop(order, i + 1, order[i], score,
                                     workload, ubicacion, required)
             ELSE BestTechnicianLoop(order, i + 1, best, best_score,
                                     workload, ubicacion, required)

\* _assign_technician_automatically: the technician chosen, or NoTech
AssignTechnicianAutomatically(order, workload, ubicacion, required) ==
    IF Len(order) = 0 THEN NoTech
    ELSE BestTechnicianLoop(order, 1, NoTech, <<-1, 1>>, workload, ubicacion, required)

\* _update_technician_workload: max(0, current + increment)
UpdateTechnicianWorkload(workload, t, increment) ==
    IF t = NoTech THEN workload
    ELSE [workload EXCEPT ![t] = Max(0, workload[t] + increment)]

---------------------------------------------------------------------------
\* EnhancedIncidentManagementService: the public methods

NoResult == [status |-> "none", message |-> "", incident_id |-> 0, new_status |-> ""]

\* {"status": "success", "incident_id": ..., ...}
Success(incident_id, new_status) ==
    [status |-> "success", message |-> "",
     incident_id |-> incident_id, new_status |-> new_status]

\* {"status": "error", "message": ...}
Error(message) ==
    [status |-> "error", message |-> message, incident_id |-> 0, new_status |-> ""]

\* _generate_incident_number: the number of the row of greatest created_at
\* (any of them on a tie) plus one; 1 on an empty table
GenerateIncidentNumber ==
    IF DOMAIN incidencias = {} THEN {1}
    ELSE {incidencias[j].numero_incidencia + 1 :
            j \in {i \in DOMAIN incidencias :
                     \A k \in DOMAIN incidencias :
                        incidencias[k].created_at <= incidencias[i].created_at}}

\* incident_record of create_incident
IncidentRecord(incident_number, prioridad, assigned, t_sla, t_created, t_updated) ==
    [numero_incidencia  |-> incident_number,
     prioridad          |-> prioridad,
     estado             |-> "pendiente",
     asignado_a         |-> assigned,
     sla_deadline       |-> CalculateSlaDeadline(prioridad, t_sla),
     created_at         |-> t_created,
     updated_at         |-> t_updated,
     fecha_finalizacion |-> NoTime]

\* _log_audit_action: one more row for the incident, nothing when the insert fails
LogAuditAction(logs, incident_id, ok) ==
    IF ok THEN [logs EXCEPT ![incident_id] = @ + 1] ELSE logs

\* a table "incidencias" whose column numero_incidencia is not UNIQUE
UniqueNotEnforced(rows, record) == FALSE

\* numero_incidencia VARCHAR(20) UNIQUE NOT NULL: the store rejects the
\* insert of a row whose number a stored row has, and execute() raises
UniqueViolation(rows, record) ==
    \E i \in DOMAIN rows : rows[i].numero_incidencia = record.numero_incidencia

\* create_incident with a priority that IncidentPriority() rejects: the
\* technician has been chosen and charged before the exception is caught
EnhancedCreateIncidentBadPriority ==
    \E prioridad \in PriorityInputs \ IncidentPriorityValues,
       required_specialty \in Specialties, ubicacion \in Locations :
    \E order \in Orders(GetAvailableTechnicians(required_specialty)) :
        LET assigned == AssignTechnicianAutomatically(order, current_workload,
                                                      ubicacion, required_specialty)
        IN  /\ calls < MaxCalls
            /\ calls' = calls + 1
            /\ current_workload' =
                  UpdateTechnicianWorkload(current_workload, assigned, 1)
            /\ result' = Error("ValueError")
            /\ UNCHANGED <<clock, incidencias, audit_logs, incident_comments>>
            /\ UNCHANGED <<managerVars, predictorVars, monitoringVars, workerVars>>

\* create_incident with a valid priority
EnhancedCreateIncident ==
    \E prioridad \in PriorityInputs \cap IncidentPriorityValues,
       required_specialty \in Specialties, ubicacion \in Locations,
       insert_ok, audit_ok \in BOOLEAN :
    \E incident_number \in GenerateIncidentNumber,
       order \in Orders(GetAvailableTechnicians(required_specialty)),
       t_sla \in LaterReads(clock) :
    \E t_created \in LaterReads(t_sla) :
    \E t_updated \in LaterReads(t_created) :
        LET assigned == AssignTechnicianAutomatically(order, current_workload,
                                                      ubicacion, required_specialty)
            incident_id == Cardinality(DOMAIN incidencias) + 1
            record == IncidentRecord(incident_number, prioridad, assigned,
                                     t_sla, t_created, t_updated)
        IN  /\ calls < MaxCalls
            /\ Cardinality(DOMAIN incidencias) < MaxIncidents
            /\ calls' = calls + 1
            /\ current_workload' =
                  UpdateTechnicianWorkload(current_workload, assigned, 1)
            /\ IF insert_ok /\ ~UniqueViolation(incidencias, record)
               THEN /\ incidencias' = (incident_id :> record) @@ incidencias
                    /\ audit_logs' = LogAuditAction((incident_id :> 0) @@ audit_logs,
                                                    incident_id, audit_ok)
                    /\ incident_comments' = (incident_id :> 0) @@ incident_comments
                    /\ clock' = t_updated
                    /\ result' = Success(incident_id, "pendiente")
               ELSE /\ clock' = t_updated
                    /\ result' = Error("Error al crear incidencia en la base de datos")
                    /\ UNCHANGED <<incidencias, audit_logs, incident_comments>>
            /\ UNCHANGED <<managerVars, predictorVars, monitoringVars, workerVars>>

\* _can_update_incident
CanUpdateIncident(incident, current_user) ==
    IF Role[current_user] \in {"administrador", "supervisor"} THEN TRUE
    ELSE IF Role[current_user] = "tecnico"
         THEN incident.asignado_a = current_user
         ELSE FALSE

\* update_data that also recomputes the SLA from the time of the update
UpdateDataMovingSla(incident, new_status, t_updated, t_final) ==
    IF new_status = "finalizada"
    THEN [incident EXCEPT !.estado = new_status, !.updated_at = t_updated,
                          !.fecha_finalizacion = t_final,
                          !.sla_deadline = CalculateSlaDeadline(incident.prioridad, t_updated)]
    ELSE [incident EXCEPT !.estado = new_status, !.updated_at = t_updated,
                          !.sla_deadline = CalculateSlaDeadline(incident.prioridad, t_updated)]

\* update_data of update_incident_status merged into the stored row
UpdateData(incident, new_status, t_updated, t_final) ==
    IF new_status = "finalizada"
    THEN [incident EXCEPT !.estado = new_status, !.updated_at = t_updated,
                          !.fecha_finalizacion = t_final]
    ELSE [incident EXCEPT !.estado = new_status, !.updated_at = t_updated]

\* update_incident_status: the calls rejected before the store is written
EnhancedUpdateIncidentStatusRejected ==
    \E incident_id \in 1..(Cardinality(DOMAIN incidencias) + 1),
       new_status \in IncidentStatusValues \cup {"escalated"},
       current_user \in Users :
        /\ calls < MaxCalls
        /\ calls' = calls + 1
        /\ \/ /\ new_status \notin IncidentStatusValues
              /\ result' = Error("Estado invalido")
           \/ /\ new_status \in IncidentStatusValues
              /\ incident_id \notin DOMAIN incidencias
              /\ result' = Error("Incidencia no encontrada")
           \/ /\ new_status \in IncidentStatusValues
              /\ incident_id \in DOMAIN incidencias
              /\ ~CanUpdateIncident(incidencias[incident_id], current_user)
              /\ result' = Error("No tiene permisos para actualizar esta incidencia")
        /\ UNCHANGED <<clock, incidencias, current_workload, audit_logs,
                       incident_comments>>
        /\ UNCHANGED <<managerVars, predictorVars, monitoringVars, workerVars>>

\* update_incident_status: the calls that reach the update of the row
EnhancedUpdateIncidentStatus ==
    \E incident_id \in DOMAIN incidencias,
       new_status \in IncidentStatusValues,
       current_user \in Users,
       comments, update_ok, audit_ok \in BOOLEAN,
       t_updated \in LaterReads(clock) :
    \E t_final \in LaterReads(t_updated) :
        /\ CanUpdateIncident(incidencias[incident_id], current_user)
        /\ calls < MaxCalls
        /\ calls' = calls + 1
        /\ IF update_ok
           THEN /\ incidencias' = [incidencias EXCEPT ![incident_id] =
                                      UpdateData(@, new_status, t_updated, t_final)]
                /\ incident_comments' =
                      IF comments
                      THEN [incident_comments EXCEPT ![incident_id] = @ + 1]
                      ELSE incident_comments
                /\ audit_logs' = LogAuditAction(audit_logs, incident_id, audit_ok)
                /\ result' = Success(incident_id, new_status)
           ELSE /\ result' = Error("Error actualizando incidencia")
                /\ UNCHANGED <<incidencias, incident_comments, audit_logs>>
        /\ clock' = IF new_status = "finalizada" THEN t_final ELSE t_updated
        /\ UNCHANGED current_workload
        /\ UNCHANGED <<managerVars, predictorVars, monitoringVars, workerVars>>

---------------------------------------------------------------------------
\* EnhancedIncidentManagementService.create_incident run by several server
\* processes on the one store.  A process is interrupted only between two
\* requests to the store: each step below is one request with the
\* statements that follow it up to the next request.

Workers == {"w1", "w2"}

\* a process that is not in a call
IdleWorker == [pc |-> "idle", incident_number |-> 0, assigned |-> NoTech,
               read_workload |-> 0]

\* the calls begun so far: the ones that have returned and the ones in progress
CallsBegun == calls + Cardinality({w \in Workers : worker[w].pc # "idle"})

\* _generate_incident_number: the select of the last numero_incidencia
WorkerGenerateIncidentNumber(w) ==
    \E incident_number \in GenerateIncidentNumber :
        /\ worker[w].pc = "idle"
        /\ CallsBegun < MaxWorkerCalls
        /\ worker' = [worker EXCEPT ![w] = [IdleWorker EXCEPT
                                              !.pc = "numbered",
                                              !.incident_number = incident_number]]
        /\ UNCHANGED <<enhancedVars, calls, result>>
        /\ UNCHANGED <<managerVars, predictorVars, monitoringVars>>

\* _assign_technician_automatically up to its choice: the select of the
\* technicians and the loop over their scores
WorkerSelectTechnician(w) ==
    \E required_specialty \in Specialties, ubicacion \in Locations :
    \E order \in Orders(GetAvailableTechnicians(required_specialty)) :
        LET assigned == AssignTechnicianAutomatically(order, current_workload,
                                                      ubicacion, required_specialty)
        IN  /\ worker[w].pc = "numbered"
            /\ worker' = [worker EXCEPT
                             ![w].assigned = assigned,
                             ![w].pc = IF assigned = NoTech THEN "charged" ELSE "chosen"]
            /\ UNCHANGED <<enhancedVars, calls, result>>
            /\ UNCHANGED <<managerVars, predictorVars, monitoringVars>>

\* _update_technician_workload: the select of current_workload
WorkerReadWorkload(w) ==
    /\ worker[w].pc = "chosen"
    /\ worker' = [worker EXCEPT ![w].read_workload = current_workload[worker[w].assigned],
                                ![w].pc = "read"]
    /\ UNCHANGED <<enhancedVars, calls, result>>
    /\ UNCHANGED <<managerVars, predictorVars, monitoringVars>>

\* _update_technician_workload: the update with max(0, current + increment)
WorkerWriteWorkload(w) ==
    /\ worker[w].pc = "read"
    /\ current_workload' = [current_workload EXCEPT ![worker[w].assigned] =
                               Max(0, worker[w].read_workload + 1)]
    /\ worker' = [worker EXCEPT ![w].pc = "charged"]
    /\ UNCHANGED <<clock, incidencias, audit_logs, incident_comments, calls, result>>
    /\ UNCHANGED <<managerVars, predictorVars, monitoringVars>>

\* the rest of create_incident: IncidentPriority(prioridad), the record, its
\* insert, the audit record and the return
WorkerInsertIncident(w) ==
    \E prioridad \in PriorityInputs, insert_ok, audit_ok \in BOOLEAN,
       t_sla \in LaterReads(clock) :
    \E t_created \in LaterReads(t_sla) :
    \E t_updated \in LaterReads(t_created) :
        LET incident_id == Cardinality(DOMAIN incidencias) + 1
        IN  /\ worker[w].pc = "charged"
            /\ worker' = [worker EXCEPT ![w] = IdleWorker]
            /\ calls' = calls + 1
            /\ IF prioridad \notin IncidentPriorityValues
               THEN /\ result' = Error("ValueError")
                    /\ UNCHANGED <<clock, incidencias, audit_logs, incident_comments>>
               ELSE LET record == IncidentRecord(worker[w].incident_number, prioridad,
                                                 worker[w].assigned,
                                                 t_sla, t_created, t_updated)
                    IN  /\ clock' = t_updated
                        /\ IF ~insert_ok
                           THEN /\ result' = Error("Error al crear incidencia en la base de datos")
                                /\ UNCHANGED <<incidencias, audit_logs, incident_comments>>
                           ELSE IF UniqueViolation(incidencias, record)
                           THEN /\ result' = Error("duplicate key value violates unique constraint")
                                /\ UNCHANGED <<incidencias, audit_logs, incident_comments>>
                           ELSE /\ incidencias' = (incident_id :> record) @@ incidencias
                                /\ audit_logs' =
                                      LogAuditAction((incident_id :> 0) @@ audit_logs,
                                                     incident_id, audit_ok)
                                /\ incident_comments' = (incident_id :> 0) @@ incident_comments
                                /\ result' = Success(incident_id, "pendiente")
            /\ UNCHANGED current_workload
            /\ UNCHANGED <<managerVars, predictorVars, monitoringVars>>

---------------------------------------------------------------------------
\* IntelligentIncidentManager: enumerations and request values

\* IncidentStatus of intelligent_incident_management.py
ManagerStatusValues == {"pending", "in_progress", "completed", "cancelled", "escalated"}

\* a text is the set of the keywords it contains; the title holds none
Keywords == {"vibracion", "sensor", "parada"}
Descriptions == SUBSET Keywords

EquipmentIds == {"motor", "EQ-7"}
CriticalityInputs == {"low", "high"}
ImpactInputs == {"none"}

NoNotes == "None"
NoDuration == 0 - 1
NotesInputs == {NoNotes, "resuelto"}
DurationInputs == {NoDuration, 60, 240}

\* _analyze_incident: the tags, risk level and required specialties detected
AnalyzeIncident(description) ==
    LET mecanica == "vibracion" \in description
        electronica == "sensor" \in description
        critico == "parada" \in description
    IN  [suggested_tags |-> (IF mecanica THEN {"mecanica"} ELSE {})
                            \cup (IF electronica THEN {"electronica"} ELSE {})
                            \cup (IF critico THEN {"critico"} ELSE {}),
         risk_level |-> IF critico THEN "high" ELSE "medium",
         complexity |-> "medium",
         required_specialties |-> (IF mecanica THEN {"mecanico"} ELSE {})
                                  \cup (IF electronica
                                        THEN {"electronico", "electrico"} ELSE {})]

\* _determine_priority
DeterminePriority(description, equipment_criticality, production_impact, analysis) ==
    LET risk == CASE analysis.risk_level = "low" -> 1
                  [] analysis.risk_level = "medium" -> 2
                  [] analysis.risk_level = "high" -> 3
        criticality == CASE equipment_criticality = "low" -> 1
                         [] equipment_criticality = "medium" -> 2
                         [] equipment_criticality = "high" -> 3
                         [] equipment_criticality = "critical" -> 4
                         [] OTHER -> 2
        impact == CASE production_impact = "none" -> 0
                    [] production_impact = "low" -> 1
                    [] production_impact = "medium" -> 2
                    [] production_impact = "high" -> 3
                    [] OTHER -> 2
        words == IF "parada" \in description THEN 2 ELSE 0
        priority_score == risk + criticality + impact + words
    IN  IF priority_score >= 8 THEN "critical"
        ELSE IF priority_score >= 6 THEN "high"
        ELSE IF priority_score >= 4 THEN "medium"
        ELSE "low"

\* _estimate_resolution_time, in minutes: int(120 * complexity * failure * specialties)
EstimateResolutionTime(analysis) ==
    LET complexity10 == CASE analysis.complexity = "low" -> 5
                          [] analysis.complexity = "medium" -> 10
                          [] analysis.complexity = "high" -> 20
        failure10 == IF "electronica" \in analysis.suggested_tags THEN 15
                     ELSE IF "mecanica" \in analysis.suggested_tags THEN 12
                     ELSE 10
        specialties10 == IF Cardinality(analysis.required_specialties) > 1 THEN 13 ELSE 10
    IN  (120 * complexity10 * failure10 * specialties10) \div 1000

---------------------------------------------------------------------------
\* TechnicianRecommendationSystem (technician_recommendation.py)

\* rows of the manager's table "users" with role = 'technician'
ManagerTechnicians == {"m1", "m2", "m3"}

ManagerTechRow == [t \in ManagerTechnicians |->
    CASE t = "m1" -> [specialty |-> "mecanico", experience_years |-> 12,
                      skill_level |-> "expert", location |-> LocLima,
                      availability_status |-> "available"]
      [] t = "m2" -> [specialty |-> "electronico", experience_years |-> 2,
                      skill_level |-> "junior", location |-> LocCallao,
                      availability_status |-> "available"]
      [] t = "m3" -> [specialty |-> "electrico", experience_years |-> 8,
                      skill_level |-> "senior", location |-> LocLima,
                      availability_status |-> "busy"]]

\* rank of a skill level in the string order that ORDER BY skill_level uses
SkillLevelOrder(skill_level) ==
    CASE skill_level = "expert" -> 1
      [] skill_level = "intermediate" -> 2
      [] skill_level = "junior" -> 3
      [] skill_level = "senior" -> 4

\* COUNT(i.id) of the incidents of a technician that are pending or in progress
ManagerWorkload(t) ==
    Cardinality({i \in DOMAIN incidents :
                    /\ incidents[i].assigned_technician = t
                    /\ incidents[i].status \in {"pending", "in_progress"}})

\* _get_available_technicians: the orders in which the query can return the
\* available technicians (ORDER BY current_workload ASC, skill_level DESC)
ManagerAvailableTechnicians ==
    LET pool == {t \in ManagerTechnicians :
                    ManagerTechRow[t].availability_status = "available"}
    IN  {o \in Orders(pool) :
            \A i, j \in DOMAIN o : i < j =>
                \/ ManagerWorkload(o[i]) < ManagerWorkload(o[j])
                \/ /\ ManagerWorkload(o[i]) = ManagerWorkload(o[j])
                   /\ SkillLevelOrder(ManagerTechRow[o[i]].skill_level)
                        >= SkillLevelOrder(ManagerTechRow[o[j]].skill_level)}

\* str.split(): the words of a string
RECURSIVE SplitWords(_, _, _)
SplitWords(str, i, word) ==
    IF i > Len(str) THEN (IF word = <<>> THEN {} ELSE {word})
    ELSE IF str[i] = " "
         THEN (IF word = <<>> THEN {} ELSE {word}) \cup SplitWords(str, i + 1, <<>>)
         ELSE SplitWords(str, i + 1, Append(word, str[i]))

\* the component scores are in units of 1/100000 of the total score

\* _calculate_specialty_match * 0.4
SpecialtyMatch(specialty, equipment_type, failure_type) ==
    LET equipment == CASE specialty = "mecanico" -> {"motor", "bomba", "compresor", "generador"}
                       [] specialty = "electrico" -> {"motor", "generador", "transformador", "panel"}
                       [] specialty = "electronico" -> {"sensor", "controlador", "plc", "hmi"}
                       [] specialty = "hidraulico" -> {"bomba", "valvula", "cilindro", "actuador"}
                       [] specialty = "neumatico" -> {"compresor", "valvula", "cilindro", "actuador"}
                       [] OTHER -> {}
        \* the failure type is the whole description: it is a key of the map
        \* only when the description is that one word
        specialists == IF failure_type = {"vibracion"} THEN {"mecanico", "electrico"}
                       ELSE {}
    IN  (IF equipment_type \in equipment THEN 20000 ELSE 0)
        + (IF specialty \in specialists THEN 20000 ELSE 0)

\* _calculate_experience_score * 0.25
ExperienceScore(experience_years, skill_level, priority) ==
    LET skill10 == CASE skill_level = "junior" -> 6
                     [] skill_level = "intermediate" -> 8
                     [] skill_level = "senior" -> 10
                     [] skill_level = "expert" -> 12
                     [] OTHER -> 8
        priority10 == CASE priority = "low" -> 8
                        [] priority = "medium" -> 10
                        [] priority = "high" -> 12
                        [] priority = "critical" -> 14
                        [] OTHER -> 10
    IN  Min(experience_years, 10) * skill10 * priority10 * 25

\* _calculate_workload_score * 0.2
WorkloadScore(workload) ==
    IF workload = 0 THEN 20000
    ELSE IF workload <= 2 THEN 16000
    ELSE IF workload <= 4 THEN 12000
    ELSE 8000

\* _calculate_location_score * 0.1
LocationScore(tech_location, incident_location) ==
    IF tech_location = <<>> \/ incident_location = <<>> THEN 5000
    ELSE IF tech_location = incident_location THEN 10000
    ELSE IF \E word \in SplitWords(incident_location, 1, <<>>) :
                IsSubstring(word, tech_location)
         THEN 8000
         ELSE 6000

\* _calculate_performance_score * 0.05, as a fraction: completion rate 50%,
\* time score 30% (resolved_at is never written: the average is NULL, 24 is
\* used and the time score is 0.5), critical incidents resolved 20%
PerformanceScore(t) ==
    LET mine == {i \in DOMAIN incidents : incidents[i].assigned_technician = t}
        completed == {i \in mine : incidents[i].status = "completed"}
        critical_resolved == Cardinality({i \in completed :
                                            incidents[i].priority = "critical"})
        total == Cardinality(mine)
        den == IF total = 0 THEN 1 ELSE total
    IN  <<2500 * Cardinality(completed) + (750 + 200 * Min(critical_resolved, 5)) * den,
          den>>

\* _calculate_technician_score: min(score, 1.0), as a fraction
ManagerTechnicianScore(t, equipment_type, failure_type, location, priority) ==
    LET row == ManagerTechRow[t]
        perf == PerformanceScore(t)
        units == SpecialtyMatch(row.specialty, equipment_type, failure_type)
                 + ExperienceScore(row.experience_years, row.skill_level, priority)
                 + WorkloadScore(ManagerWorkload(t))
                 + LocationScore(row.location, location)
        score == <<units * perf[2] + perf[1], perf[2]>>
    IN  IF ScoreGt(score, <<100000, 1>>) THEN <<100000, 1>> ELSE score

\* list.sort(key=score, reverse=True): stable, so a technician goes behind
\* the ones already placed whose score is not smaller
RECURSIVE SortByScore(_, _, _, _, _, _, _)
SortByScore(order, i, sorted, equipment_type, failure_type, location, priority) ==
    IF i > Len(order) THEN sorted
    ELSE LET Score(t) == ManagerTechnicianScore(t, equipment_type, failure_type,
                                                location, priority)
             ahead == {k \in DOMAIN sorted : ~ScoreGt(Score(order[i]), Score(sorted[k]))}
             n == Cardinality(ahead)
         IN  SortByScore(order, i + 1,
                         SubSeq(sorted, 1, n) \o <<order[i]>>
                             \o SubSeq(sorted, n + 1, Len(sorted)),
                         equipment_type, failure_type, location, priority)

\* get_technician_recommendations(incident_data, limit): the ranked technicians
GetTechnicianRecommendations(order, limit, equipment_type, failure_type, location, priority) ==
    LET ranked == SortByScore(order, 1, <<>>, equipment_type, failure_type,
                              location, priority)
    IN  SubSeq(ranked, 1, Min(limit, Len(ranked)))

\* _auto_assign_technician: the id of the first recommendation, or none
AutoAssignTechnician(recommendations) ==
    IF Len(recommendations) = 0 THEN NoTech ELSE recommendations[1]

---------------------------------------------------------------------------
\* IntelligentIncidentManager: the public methods

\* the Incident built by create_incident, as _save_incident stores it
ManagerIncident(priority, estimated_duration, assigned) ==
    [priority            |-> priority,
     status              |-> "pending",
     assigned_technician |-> assigned,
     estimated_duration  |-> estimated_duration,
     actual_duration     |-> NoDuration,
     resolution_notes    |-> NoNotes]

\* create_incident(incident_data, auto_assign)
ManagerCreateIncident ==
    \E description \in Descriptions, equipment_id \in EquipmentIds,
       location \in {LocLima, LocCallao},
       equipment_criticality \in CriticalityInputs,
       production_impact \in ImpactInputs,
       auto_assign, technicians_ok, save_ok \in BOOLEAN :
    \E order \in (IF technicians_ok THEN ManagerAvailableTechnicians ELSE {<<>>}) :
        LET analysis == AnalyzeIncident(description)
            priority == DeterminePriority(description, equipment_criticality,
                                          production_impact, analysis)
            estimated_duration == EstimateResolutionTime(analysis)
            recommendations ==
                GetTechnicianRecommendations(order, 3, equipment_id, description,
                                             location, priority)
            assigned == IF auto_assign THEN AutoAssignTechnician(recommendations)
                        ELSE NoTech
            incident_id == Cardinality(DOMAIN incidents) + 1
        IN  /\ calls < MaxManagerCalls
            /\ Cardinality(DOMAIN incidents) < MaxIncidents
            /\ calls' = calls + 1
            /\ IF save_ok
               THEN /\ incidents' = (incident_id :>
                                        ManagerIncident(priority, estimated_duration,
                                                        assigned)) @@ incidents
                    /\ result' = Success(incident_id, "pending")
               ELSE /\ incidents' = incidents
                    /\ result' = Error("Error guardando incidencia")
            /\ UNCHANGED incident_performance
            /\ UNCHANGED <<enhancedVars, predictorVars, monitoringVars, workerVars>>

\* an UPDATE that records an escalation without touching the status
ManagerUpdateRowEscalationFlag(rows, incident_id, new_status, notes, actual_duration) ==
    IF incident_id \in DOMAIN rows
    THEN [rows EXCEPT ![incident_id] =
            [@ EXCEPT !.status = IF new_status = "escalated" THEN @ ELSE new_status,
                      !.resolution_notes = notes,
                      !.actual_duration = actual_duration]]
    ELSE rows

\* an UPDATE that releases the technician of a cancelled incident
ManagerUpdateRowReleasing(rows, incident_id, new_status, notes, actual_duration) ==
    IF incident_id \in DOMAIN rows
    THEN [rows EXCEPT ![incident_id] =
            [@ EXCEPT !.status = new_status,
                      !.resolution_notes = notes,
                      !.actual_duration = actual_duration,
                      !.assigned_technician =
                          IF new_status = "cancelled" THEN NoTech ELSE @]]
    ELSE rows

\* the UPDATE of update_incident_status: the row of that id, if there is one,
\* takes the new status, the notes and the actual duration of the call
ManagerUpdateRow(rows, incident_id, new_status, notes, actual_duration) ==
    IF incident_id \in DOMAIN rows
    THEN [rows EXCEPT ![incident_id] =
            [@ EXCEPT !.status = new_status,
                      !.resolution_notes = notes,
                      !.actual_duration = actual_duration]]
    ELSE rows

\* efficiency = min(1.0, estimated / actual), as a fraction
Efficiency(estimated, actual) ==
    IF estimated >= actual THEN <<1, 1>> ELSE <<estimated, actual>>

\* _generate_performance_analysis: one more row when the incident is found
\* and its estimated and actual durations are positive numbers
GeneratePerformanceAnalysis(performance, rows, incident_id) ==
    IF incident_id \notin DOMAIN rows THEN performance
    ELSE LET estimated == rows[incident_id].estimated_duration
             actual == rows[incident_id].actual_duration
         IN  IF actual # NoDuration /\ estimated > 0 /\ actual > 0
             THEN Append(performance,
                         [incident_id |-> incident_id,
                          estimated_duration |-> estimated,
                          actual_duration |-> actual,
                          efficiency |-> Efficiency(estimated, actual)])
             ELSE performance

\* update_incident_status(incident_id, new_status, notes, actual_duration)
ManagerUpdateIncidentStatus ==
    \E incident_id \in 1..(Cardinality(DOMAIN incidents) + 1),
       new_status \in ManagerStatusValues,
       notes \in NotesInputs, actual_duration \in DurationInputs,
       db_ok \in BOOLEAN :
        /\ calls < MaxManagerCalls
        /\ calls' = calls + 1
        /\ IF db_ok
           THEN LET rows == ManagerUpdateRow(incidents, incident_id, new_status,
                                             notes, actual_duration)
                IN  /\ incidents' = rows
                    /\ incident_performance' =
                          IF new_status = "completed"
                          THEN GeneratePerformanceAnalysis(incident_performance,
                                                           rows, incident_id)
                          ELSE incident_performance
                    /\ result' = Success(incident_id, new_status)
           ELSE /\ result' = Error("Error actualizando estado")
                /\ UNCHANGED <<incidents, incident_performance>>
        /\ UNCHANGED <<enhancedVars, predictorVars, monitoringVars, workerVars>>

---------------------------------------------------------------------------
\* The predictors: PredictiveMaintenanceModel (app/services/ml_models.py) and
\* AdvancedPredictiveMaintenance (advanced_predictive_maintenance.py).
\* Probabilities and scores are in hundredths, criticality scores in
\* thousandths, in exact arithmetic.

NoRequest == [op |-> "none"]

\* the probability of failure the fitted classifier gives a row
ProbabilityInputs == {0, 50, 60, 61, 70, 71, 72, 80, 81, 90, 91, 100}
\* the arguments _assess_criticality is applied to
AssessProbabilityInputs == {0, 72, 90, 100}
AnomalyInputs == {0, 50, 55, 80, 100}
EquipmentCriticalityInputs == {"low", "medium", "high", "critical"}
\* equipment_data['age_months'] and ['operating_hours']
AgeMonthsInputs == {0, 12}
OperatingHoursInputs == {0, 1000}

\* _estimate_days_until_failure(probability)
EstimateDaysUntilFailure(probability) ==
    IF probability > 90 THEN 1
    ELSE IF probability > 80 THEN 3
    ELSE IF probability > 70 THEN 7
    ELSE IF probability > 60 THEN 14
    ELSE 30

\* _assess_criticality: criticality_score in thousandths
CriticalityScore(failure_probability, anomaly_score, equipment_criticality) ==
    4 * failure_probability + 3 * anomaly_score
        + 3 * (IF equipment_criticality = "high" THEN 100 ELSE 50)

\* _assess_criticality: the level of the score
AssessCriticality(failure_probability, anomaly_score, equipment_criticality) ==
    LET criticality_score == CriticalityScore(failure_probability, anomaly_score,
                                              equipment_criticality)
    IN  IF criticality_score >= 800 THEN "critical"
        ELSE IF criticality_score >= 600 THEN "high"
        ELSE IF criticality_score >= 400 THEN "medium"
        ELSE "low"

\* _estimate_time_to_failure(features), in tenths of an hour: features[0, 0]
\* is age_months and features[0, 1] is operating_hours (_prepare_features)
EstimateTimeToFailure(age_months, operating_hours) ==
    IF age_months * 10 > 8 THEN Max(240, 336)
    ELSE IF operating_hours * 10 > 8 THEN Max(480, 672)
    ELSE 1680

\* train_failure_predictor: fits scaler and classifier, writes both files and
\* sets is_trained; nothing of it when the data cannot be prepared or split
ModelTrainFailurePredictor ==
    \E train_ok \in BOOLEAN :
        /\ request' = [op |-> "train_failure_predictor"]
        /\ IF train_ok
           THEN /\ is_trained' = TRUE
                /\ model_files' = TRUE
                /\ result' = [status |-> "success"]
           ELSE /\ result' = [status |-> "error"]
                /\ UNCHANGED <<is_trained, model_files>>
        /\ UNCHANGED <<advanced_fitted, calls>>
        /\ UNCHANGED <<enhancedVars, managerVars, monitoringVars, workerVars>>

\* a new process: PredictiveMaintenanceModel() and
\* AdvancedPredictiveMaintenance() are constructed again, the files stay
ModelRestart ==
    /\ request' = [op |-> "restart"]
    /\ is_trained' = FALSE
    /\ advanced_fitted' = FALSE
    /\ result' = NoResult
    /\ UNCHANGED <<model_files, calls>>
    /\ UNCHANGED <<enhancedVars, managerVars, monitoringVars, workerVars>>

\* the list predict_failures returns for a frame of one row
FailurePredictions(probability) ==
    IF probability > 50
    THEN <<[index |-> 0,
            probability |-> probability,
            confidence |-> IF probability > 80 THEN "high" ELSE "medium",
            days_until_failure |-> EstimateDaysUntilFailure(probability)]>>
    ELSE <<>>

\* predict_failures(df) on a frame of one row: _load_models when not trained
\* (it sets is_trained only when both files exist); an unfitted scaler or a
\* frame without feature columns raises, and the handler returns []
ModelPredictFailures ==
    \E probability \in ProbabilityInputs, features_ok \in BOOLEAN :
        LET loaded == is_trained \/ model_files
        IN  /\ request' = [op |-> "predict_failures", features_ok |-> features_ok]
            /\ is_trained' = loaded
            /\ result' = [status |-> "predictions",
                          predictions |-> IF loaded /\ features_ok
                                          THEN FailurePredictions(probability)
                                          ELSE <<>>]
            /\ UNCHANGED <<model_files, advanced_fitted, calls>>
            /\ UNCHANGED <<enhancedVars, managerVars, monitoringVars, workerVars>>

\* AdvancedPredictiveMaintenance.train_models(historical_data)
AdvancedTrainModels ==
    \E train_ok \in BOOLEAN :
        /\ request' = [op |-> "train_models"]
        /\ advanced_fitted' = (advanced_fitted \/ train_ok)
        /\ result' = [status |-> IF train_ok THEN "success" ELSE "error"]
        /\ UNCHANGED <<is_trained, model_files, calls>>
        /\ UNCHANGED <<enhancedVars, managerVars, monitoringVars, workerVars>>

\* _predict_failure_probability(features): 0.0 when predict_proba raises. It
\* raises on models that were never fitted, and on fitted ones as well:
\* train_models fits them on 7 columns, _prepare_features gives 19
PredictFailureProbability(fitted) ==
    IF fitted THEN 0 ELSE 0

\* _detect_anomalies(features): 0.5 when decision_function raises, which it
\* does for the same two reasons
DetectAnomalies(fitted) ==
    IF fitted THEN 50 ELSE 50

\* AdvancedPredictiveMaintenance.predict_failure(equipment_data, sensor_data)
AdvancedPredictFailure ==
    \E equipment_criticality \in EquipmentCriticalityInputs,
       age_months \in AgeMonthsInputs, operating_hours \in OperatingHoursInputs :
        LET anomaly_score == DetectAnomalies(advanced_fitted)
            failure_probability == PredictFailureProbability(advanced_fitted)
        IN  /\ request' = [op |-> "predict_failure",
                           equipment_criticality |-> equipment_criticality,
                           age_months |-> age_months,
                           operating_hours |-> operating_hours]
            /\ result' = [status |-> "prediction",
                          failure_probability |-> failure_probability,
                          anomaly_score |-> anomaly_score,
                          criticality |-> AssessCriticality(failure_probability,
                                                            anomaly_score,
                                                            equipment_criticality),
                          time_to_failure |-> EstimateTimeToFailure(age_months,
                                                                    operating_hours)]
            /\ UNCHANGED <<is_trained, model_files, advanced_fitted, calls>>
            /\ UNCHANGED <<enhancedVars, managerVars, monitoringVars, workerVars>>

\* _assess_criticality(failure_probability, anomaly_score, equipment_data)
\* applied to arguments of its whole domain
AdvancedAssessCriticality ==
    \E failure_probability \in AssessProbabilityInputs,
       anomaly_score \in AnomalyInputs,
       equipment_criticality \in EquipmentCriticalityInputs :
        /\ request' = [op |-> "assess_criticality",
                       failure_probability |-> failure_probability,
                       anomaly_score |-> anomaly_score,
                       equipment_criticality |-> equipment_criticality]
        /\ result' = [status |-> "criticality",
                      score |-> CriticalityScore(failure_probability, anomaly_score,
                                                 equipment_criticality),
                      criticality |-> AssessCriticality(failure_probability,
                                                        anomaly_score,
                                                        equipment_criticality)]
        /\ UNCHANGED <<is_trained, model_files, advanced_fitted, calls>>
        /\ UNCHANGED <<enhancedVars, managerVars, monitoringVars, workerVars>>

---------------------------------------------------------------------------
\* Analysis of sensor series: RAGAgent (app/services/rag_agent.py) and
\* PredictiveMaintenanceService (grinding-peru predictive_maintenance.py).
\* Readings are in thousandths; slopes are fractions <<numerator, denominator>>
\* of thousandths per sample, in exact arithmetic.

\* a missing reading (NaN)
NaN == 0 - 1000000

\* the readings of one channel
ReadingInputs == {0, 5, 50, 1000, 2000}

\* the series of one channel of a frame that has rows
TrendSeries ==
    UNION {[1..n -> ReadingInputs \cup {NaN}] : n \in 1..MaxSeriesLen}

\* Series.dropna()
DropNa(series) == SelectSeq(series, LAMBDA v : v # NaN)

\* np.sum: the sum of the elements of a sequence from index i on
RECURSIVE Sum(_, _)
Sum(seq, i) ==
    IF i > Len(seq) THEN 0 ELSE seq[i] + Sum(seq, i + 1)

\* np.polyfit(np.arange(len(y)), y, 1)[0]: the least-squares slope
\* (n*Sxy - Sx*Sy) / (n*Sxx - Sx*Sx), for len(y) >= 2
PolyfitSlope(y) ==
    LET n == Len(y)
        Sx == Sum([i \in 1..n |-> i - 1], 1)
        Sxx == Sum([i \in 1..n |-> (i - 1) * (i - 1)], 1)
        Sy == Sum(y, 1)
        Sxy == Sum([i \in 1..n |-> (i - 1) * y[i]], 1)
    IN  <<n * Sxy - Sx * Sy, n * Sxx - Sx * Sx>>

Abs(a) == IF a < 0 THEN 0 - a ELSE a

\* RAGAgent._analyze_trend(df, column) on a column the frame has
AnalyzeTrend(series) ==
    LET clean == DropNa(series)
    IN  IF clean = <<>>
        THEN [trend |-> "no_data", slope |-> <<0, 1>>]
        ELSE IF Len(clean) < 2
        THEN [trend |-> "insufficient_data", slope |-> <<0, 1>>]
        ELSE LET slope == PolyfitSlope(clean)
             IN  [trend |-> IF Abs(slope[1]) < 10 * slope[2] THEN "stable"
                            ELSE IF slope[1] > 0 THEN "increasing"
                            ELSE "decreasing",
                  slope |-> slope]

\* _calculate_trend(values) of predictive_maintenance.py
CalculateTrend(values) ==
    IF Len(values) < 2 THEN "stable"
    ELSE LET slope == PolyfitSlope(values)
         IN  IF slope[1] > 100 * slope[2] THEN "increasing"
             ELSE IF slope[1] < 0 - 100 * slope[2] THEN "decreasing"
             ELSE "stable"

\* analyze_patterns: the trend of the channel of the request
RagAnalyzeTrend ==
    /\ request.op = "analyze_trend"
    /\ result = NoResult
    /\ result' = AnalyzeTrend(request.series)
    /\ UNCHANGED <<request, is_trained, model_files, advanced_fitted, calls>>
    /\ UNCHANGED <<enhancedVars, managerVars, monitoringVars, workerVars>>

\* _calculate_sensor_metrics: the trend of the channel of the request, when
\* it has a reading
SensorMetricsTrend ==
    /\ request.op = "calculate_trend"
    /\ result = NoResult
    /\ DropNa(request.series) # <<>>
    /\ result' = [trend |-> CalculateTrend(DropNa(request.series))]
    /\ UNCHANGED <<request, is_trained, model_files, advanced_fitted, calls>>
    /\ UNCHANGED <<enhancedVars, managerVars, monitoringVars, workerVars>>

\* the channels of a frame, in the order of numeric_columns / sensor_columns
Channels == <<"temperature", "vibration">>
ChannelNames == {Channels[k] : k \in DOMAIN Channels}

\* `if len(clean_data) < 10` of _detect_anomalies
MinPoints == 10
\* the rows of a frame
FrameRows == MinPoints + 1
AnomalyValues == {0, 10}

\* the column of one channel: a run of one value, missing readings, and a
\* last row that holds the same value, the other one, or nothing
ColumnInputs ==
    {[i \in 1..FrameRows |-> IF i <= run THEN v
                              ELSE IF i = FrameRows THEN last
                              ELSE NaN] :
        v \in AnomalyValues, run \in {1, MinPoints - 1, MinPoints},
        last \in AnomalyValues \cup {NaN}}

\* n*n*(n-1) times the sample variance (Series.std() squared, ddof = 1)
SquaredDeviations(values) ==
    LET n == Len(values)
        S == Sum(values, 1)
    IN  Sum([i \in 1..n |-> (n * values[i] - S) * (n * values[i] - S)], 1)

\* a detector that does not test the standard deviation
NoVariationIgnored(values) == FALSE

\* `std == 0`: no variation in the values (at least 2 of them)
NoVariation(values) == SquaredDeviations(values) = 0

\* np.abs((values - mean) / std), as the squares of the z-scores: fractions
\* <<numerator, denominator>>, where the denominator 0 is a division by a
\* zero standard deviation
ZScores(values) ==
    LET n == Len(values)
        S == Sum(values, 1)
    IN  [i \in 1..n |-> <<(n * values[i] - S) * (n * values[i] - S) * (n - 1),
                           SquaredDeviations(values)>>]

\* z > 2.5 and z > 3 (false on the NaN that 0 / 0 gives)
AboveThreshold(z) == 4 * z[1] > 25 * z[2]
AboveHigh(z) == z[1] > 9 * z[2]

\* the z-scores _detect_anomalies computes for a column, none when it skips it
DetectorZScores(column) ==
    LET clean_data == DropNa(column)
    IN  IF clean_data = <<>> \/ Len(clean_data) < MinPoints \/ NoVariation(clean_data)
        THEN <<>>
        ELSE ZScores(clean_data)

\* the anomalies _detect_anomalies appends for a column
ColumnAnomalies(name, column) ==
    LET clean_data == DropNa(column)
        z_scores == DetectorZScores(column)
        hits == SelectSeq([i \in DOMAIN z_scores |-> i],
                          LAMBDA i : AboveThreshold(z_scores[i]))
    IN  [k \in DOMAIN hits |->
            [column |-> name,
             value |-> clean_data[hits[k]],
             severity |-> IF AboveHigh(z_scores[hits[k]]) THEN "high" ELSE "medium"]]

\* RAGAgent._detect_anomalies(df): the anomalies of all columns, in the
\* order of numeric_columns
RECURSIVE DetectAnomaliesFrom(_, _)
DetectAnomaliesFrom(df, k) ==
    IF k > Len(Channels) THEN <<>>
    ELSE ColumnAnomalies(Channels[k], df[Channels[k]]) \o DetectAnomaliesFrom(df, k + 1)

\* the z-scores _calculate_health_score computes for a column, none when
\* `std_val > 0` fails (no variation, or a single value, whose std is NaN)
HealthZScores(column) ==
    LET values == DropNa(column)
    IN  IF values = <<>> \/ Len(values) < 2 \/ NoVariation(values)
        THEN <<>>
        ELSE ZScores(values)

\* anomaly_rate = anomaly_count / len(values) of a column, as a fraction
AnomalyRate(column) ==
    LET z_scores == HealthZScores(column)
        anomaly_count == Cardinality({i \in DOMAIN z_scores : AboveThreshold(z_scores[i])})
    IN  IF z_scores = <<>> THEN <<0, 1>> ELSE <<anomaly_count, Len(z_scores)>>

\* _calculate_health_score(df): 100 minus 20 times each anomaly rate, kept
\* within [0, 100], as a fraction
RECURSIVE HealthScoreFrom(_, _, _)
HealthScoreFrom(df, k, score) ==
    IF k > Len(Channels)
    THEN (IF score[1] < 0 THEN <<0, 1>>
          ELSE IF score[1] > 100 * score[2] THEN <<100, 1>> ELSE score)
    ELSE LET rate == AnomalyRate(df[Channels[k]])
         IN  HealthScoreFrom(df, k + 1,
                             <<score[1] * rate[2] - 20 * rate[1] * score[2],
                               score[2] * rate[2]>>)

CalculateHealthScore(df) == HealthScoreFrom(df, 1, <<100, 1>>)

\* analyze_patterns: the anomalies of a frame (z_scores are the ones the
\* loop computed on the way)
RagDetectAnomalies ==
    /\ request.op = "detect_anomalies"
    /\ result = NoResult
    /\ result' = [anomalies |-> DetectAnomaliesFrom(request.df, 1),
                  z_scores |-> [c \in ChannelNames |-> DetectorZScores(request.df[c])]]
    /\ UNCHANGED <<request, is_trained, model_files, advanced_fitted, calls>>
    /\ UNCHANGED <<enhancedVars, managerVars, monitoringVars, workerVars>>

\* get_equipment_health_summary: the health score of a frame
HealthSummaryScore ==
    /\ request.op = "health_score"
    /\ result = NoResult
    /\ result' = [health_score |-> CalculateHealthScore(request.df),
                  z_scores |-> [c \in ChannelNames |-> HealthZScores(request.df[c])]]
    /\ UNCHANGED <<request, is_trained, model_files, advanced_fitted, calls>>
    /\ UNCHANGED <<enhancedVars, managerVars, monitoringVars, workerVars>>

---------------------------------------------------------------------------
\* TechnicianRecommendationSystem.get_team_recommendations

TeamSizeInputs == {1, 2, 3}
TeamPriorityInputs == {"low", "critical"}

\* what get_technician_recommendations returns for a ranked technician
Recommendation(t, equipment_type, failure_type, location, priority) ==
    [technician |-> t,
     score |-> ManagerTechnicianScore(t, equipment_type, failure_type,
                                      location, priority)]

\* sum(t['score'] for t in team), as a fraction
RECURSIVE SumScores(_, _)
SumScores(team, i) ==
    IF i > Len(team) THEN <<0, 1>>
    ELSE LET rest == SumScores(team, i + 1)
             score == team[i].score
         IN  <<score[1] * rest[2] + rest[1] * score[2], score[2] * rest[2]>>

\* the entry of `teams` built for one window of the recommendations
Team(team) ==
    LET specialties == {ManagerTechRow[team[k].technician].specialty : k \in DOMAIN team}
        total == SumScores(team, 1)
    IN  [team |-> team,
         diversity_score |-> <<Cardinality(specialties), Len(team)>>,
         avg_score |-> <<total[1], total[2] * Len(team)>>,
         total_score |-> <<total[1] * Cardinality(specialties),
                           total[2] * Len(team) * Len(team)>>]

\* teams.sort(key=total_score, reverse=True): stable, so a team goes behind
\* the ones already placed whose total score is not smaller
RECURSIVE SortTeams(_, _, _)
SortTeams(teams, i, sorted) ==
    IF i > Len(teams) THEN sorted
    ELSE LET ahead == {k \in DOMAIN sorted :
                          ~ScoreGt(teams[i].total_score, sorted[k].total_score)}
             n == Cardinality(ahead)
         IN  SortTeams(teams, i + 1,
                       SubSeq(sorted, 1, n) \o <<teams[i]>>
                           \o SubSeq(sorted, n + 1, Len(sorted)))

\* get_team_recommendations(incident_data, team_size): the individual
\* recommendations themselves when they are fewer than team_size, otherwise
\* the three best of the teams made of team_size consecutive recommendations
GetTeamRecommendations(order, team_size, equipment_type, failure_type, location, priority) ==
    LET ranked == GetTechnicianRecommendations(order, team_size * 2, equipment_type,
                                               failure_type, location, priority)
        individual_recommendations ==
            [k \in DOMAIN ranked |->
                Recommendation(ranked[k], equipment_type, failure_type, location, priority)]
    IN  IF Len(individual_recommendations) < team_size
        THEN individual_recommendations
        ELSE LET teams == [i \in 1..(Len(individual_recommendations) - team_size + 1) |->
                              Team(SubSeq(individual_recommendations, i, i + team_size - 1))]
                 sorted == SortTeams(teams, 1, <<>>)
             IN  SubSeq(sorted, 1, Min(3, Len(sorted)))

\* a call of get_team_recommendations with the arguments of the request
TeamRecommendations ==
    /\ request.op = "team_recommendations"
    /\ result = NoResult
    /\ result' = [teams |-> GetTeamRecommendations(request.order, request.team_size,
                                                   request.equipment_type,
                                                   request.failure_type,
                                                   request.location, request.priority)]
    /\ UNCHANGED <<request, is_trained, model_files, advanced_fitted, calls>>
    /\ UNCHANGED <<enhancedVars, managerVars, monitoringVars, workerVars>>

\* the calls of the analyses, with their arguments; the technicians are the
\* available ones of a store without incidents, or none when the query fails
AnalysisRequests ==
    {[op |-> "team_recommendations", order |-> order, team_size |-> team_size,
      equipment_type |-> equipment_type, failure_type |-> failure_type,
      location |-> location, priority |-> priority] :
        order \in {o \in Orders({t \in ManagerTechnicians :
                                    ManagerTechRow[t].availability_status = "available"}) :
                      \A i, j \in DOMAIN o : i < j =>
                          SkillLevelOrder(ManagerTechRow[o[i]].skill_level)
                              >= SkillLevelOrder(ManagerTechRow[o[j]].skill_level)}
                   \cup {<<>>},
        team_size \in TeamSizeInputs, equipment_type \in EquipmentIds,
        failure_type \in Descriptions, location \in {LocLima, LocCallao},
        priority \in TeamPriorityInputs}
    \cup {[op |-> op, series |-> series] :
        op \in {"analyze_trend", "calculate_trend"}, series \in TrendSeries}
    \cup {[op |-> op, df |-> df] :
            op \in {"detect_anomalies", "health_score"},
            df \in [ChannelNames -> ColumnInputs]}

---------------------------------------------------------------------------
\* MonitoringService (app/services/monitoring.py)

\* the four tasks of start_monitoring
Activities == {"monitor_anomalies", "monitor_predictions", "update_models",
               "update_rag_knowledge"}

\* a task is at one of: "none" (not created), "sleeping" (the sleep that
\* opens an iteration), "scanning" (that sleep is over: the rest of the try
\* block), "backoff" (the sleep of the except block), "done" (cancelled or
\* returned); failures counts the exceptions its except block has caught;
\* cancelled_in is where the task was when its cancellation was requested
NoTask == [at |-> "none", failures |-> 0, cancelled_in |-> "none"]

\* asyncio.create_task(...): a task that enters its loop
NewTask == [at |-> "sleeping", failures |-> 0, cancelled_in |-> "none"]

\* a task that has been created and has not ended
Alive(task) == task.at \in {"sleeping", "scanning", "backoff"}

\* self.monitoring_tasks = [...]: the tasks the list held stay on the event
\* loop; the ones still alive are no longer reachable from the service
OrphanedBy(tasks, orphans) ==
    [a \in Activities |-> orphans[a] + (IF Alive(tasks[a]) THEN 1 ELSE 0)]

\* start_monitoring while not running: sets is_running and creates the four
\* tasks, each entering its loop
StartMonitoring ==
    /\ ~is_running
    /\ is_running' = TRUE
    /\ monitoring_tasks' = [a \in Activities |-> NewTask]
    /\ orphan_tasks' = OrphanedBy(monitoring_tasks, orphan_tasks)
    /\ UNCHANGED <<warnings, calls, result>>
    /\ UNCHANGED <<enhancedVars, managerVars, predictorVars, workerVars>>

\* a start_monitoring that creates its tasks although monitoring runs
StartMonitoringAgain ==
    /\ is_running
    /\ warnings < MaxWarnings
    /\ warnings' = warnings + 1
    /\ monitoring_tasks' = [a \in Activities |-> NewTask]
    /\ orphan_tasks' = OrphanedBy(monitoring_tasks, orphan_tasks)
    /\ UNCHANGED <<is_running, calls, result>>
    /\ UNCHANGED <<enhancedVars, managerVars, predictorVars, workerVars>>

\* start_monitoring while running: logs the warning and returns
StartMonitoringAlreadyRunning ==
    /\ is_running
    /\ warnings < MaxWarnings
    /\ warnings' = warnings + 1
    /\ UNCHANGED <<is_running, monitoring_tasks, orphan_tasks, calls, result>>
    /\ UNCHANGED <<enhancedVars, managerVars, predictorVars, workerVars>>

\* a stop_monitoring that clears is_running and cancels no task
StopMonitoringWithoutCancel ==
    /\ is_running
    /\ is_running' = FALSE
    /\ UNCHANGED <<monitoring_tasks, orphan_tasks, warnings, calls, result>>
    /\ UNCHANGED <<enhancedVars, managerVars, predictorVars, workerVars>>

\* stop_monitoring: returns at once when not running; otherwise clears
\* is_running, cancels every task and waits until all of them have ended
\* (CancelledError is raised in the sleep a task is suspended in, or in the
\* step that would have resumed it, and `except Exception` does not catch it)
StopMonitoring ==
    /\ is_running
    /\ is_running' = FALSE
    /\ monitoring_tasks' =
          [a \in Activities |->
              [monitoring_tasks[a] EXCEPT !.at = "done",
                                          !.cancelled_in = monitoring_tasks[a].at]]
    /\ UNCHANGED <<orphan_tasks, warnings, calls, result>>
    /\ UNCHANGED <<enhancedVars, managerVars, predictorVars, workerVars>>

\* the sleep that opens an iteration of the loop of a task is over
SleepElapses(a) ==
    /\ monitoring_tasks[a].at = "sleeping"
    /\ monitoring_tasks' = [monitoring_tasks EXCEPT ![a].at = "scanning"]
    /\ UNCHANGED <<is_running, orphan_tasks, warnings, calls, result>>
    /\ UNCHANGED <<enhancedVars, managerVars, predictorVars, workerVars>>

\* `while self.is_running` at the end of an iteration: the next iteration
\* sleeps, or the coroutine returns
NextIteration(running) == IF running THEN "sleeping" ELSE "done"

\* the scan pass of a task ends without an exception reaching the loop (no
\* data, or failures handled inside the pass)
ScanCompletes(a) ==
    /\ monitoring_tasks[a].at = "scanning"
    /\ monitoring_tasks' = [monitoring_tasks EXCEPT ![a].at = NextIteration(is_running)]
    /\ UNCHANGED <<is_running, orphan_tasks, warnings, calls, result>>
    /\ UNCHANGED <<enhancedVars, managerVars, predictorVars, workerVars>>

\* a failing pass that ends the task instead of backing off
ExceptBlockEndingTask(task) ==
    [task EXCEPT !.at = "done", !.failures = Min(task.failures + 1, MaxFailures)]

\* `except Exception as e`: the error is logged and the task sleeps
ExceptBlock(task) ==
    [task EXCEPT !.at = "backoff", !.failures = Min(task.failures + 1, MaxFailures)]

\* the scan pass of a task raises an exception
ScanFails(a) ==
    /\ monitoring_tasks[a].at = "scanning"
    /\ monitoring_tasks' = [monitoring_tasks EXCEPT ![a] = ExceptBlock(@)]
    /\ UNCHANGED <<is_running, orphan_tasks, warnings, calls, result>>
    /\ UNCHANGED <<enhancedVars, managerVars, predictorVars, workerVars>>

\* the sleep of the except block is over
BackoffElapses(a) ==
    /\ monitoring_tasks[a].at = "backoff"
    /\ monitoring_tasks' = [monitoring_tasks EXCEPT ![a].at = NextIteration(is_running)]
    /\ UNCHANGED <<is_running, orphan_tasks, warnings, calls, result>>
    /\ UNCHANGED <<enhancedVars, managerVars, predictorVars, workerVars>>

---------------------------------------------------------------------------
\* The clock

Tick ==
    /\ clock < MaxClock
    /\ clock' = clock + 1
    /\ UNCHANGED <<incidencias, current_workload, audit_logs, incident_comments,
                   calls, result>>
    /\ UNCHANGED <<managerVars, predictorVars, monitoringVars, workerVars>>

---------------------------------------------------------------------------
Init ==
    /\ clock = 0
    /\ incidencias = <<>>
    /\ current_workload = [t \in Technicians |-> 0]
    /\ audit_logs = <<>>
    /\ incident_comments = <<>>
    /\ incidents = <<>>
    /\ incident_performance = <<>>
    /\ calls = 0
    /\ result = NoResult
    /\ is_trained = FALSE
    /\ model_files = FALSE
    /\ advanced_fitted = FALSE
    /\ request = NoRequest
    /\ is_running = FALSE
    /\ monitoring_tasks = [a \in Activities |-> NoTask]
    /\ orphan_tasks = [a \in Activities |-> 0]
    /\ warnings = 0
    /\ worker = [w \in Workers |-> IdleWorker]

\* the services started on a store whose users already carry a workload
\* (current_workload is a column of "users"; the service never resets it)
InitIntake ==
    /\ clock = 0
    /\ incidencias = <<>>
    /\ current_workload \in [Technicians -> 0..MaxWorkload]
    /\ audit_logs = <<>>
    /\ incident_comments = <<>>
    /\ incidents = <<>>
    /\ incident_performance = <<>>
    /\ calls = 0
    /\ result = NoResult
    /\ is_trained = FALSE
    /\ model_files = FALSE
    /\ advanced_fitted = FALSE
    /\ request = NoRequest
    /\ is_running = FALSE
    /\ monitoring_tasks = [a \in Activities |-> NoTask]
    /\ orphan_tasks = [a \in Activities |-> 0]
    /\ warnings = 0
    /\ worker = [w \in Workers |-> IdleWorker]

\* an analysis is about to be called with its arguments
InitAnalysis ==
    /\ clock = 0
    /\ incidencias = <<>>
    /\ current_workload = [t \in Technicians |-> 0]
    /\ audit_logs = <<>>
    /\ incident_comments = <<>>
    /\ incidents = <<>>
    /\ incident_performance = <<>>
    /\ calls = 0
    /\ result = NoResult
    /\ is_trained = FALSE
    /\ model_files = FALSE
    /\ advanced_fitted = FALSE
    /\ request \in AnalysisRequests
    /\ is_running = FALSE
    /\ monitoring_tasks = [a \in Activities |-> NoTask]
    /\ orphan_tasks = [a \in Activities |-> 0]
    /\ warnings = 0
    /\ worker = [w \in Workers |-> IdleWorker]

NextEnhanced ==
    \/ EnhancedCreateIncidentBadPriority
    \/ EnhancedCreateIncident
    \/ EnhancedUpdateIncidentStatusRejected
    \/ EnhancedUpdateIncidentStatus
    \/ Tick

NextManager ==
    \/ ManagerCreateIncident
    \/ ManagerUpdateIncidentStatus

\* the enhanced service with its store and the clock
SpecEnhanced == Init /\ [][NextEnhanced]_vars

\* the intelligent manager with its store
SpecManager == Init /\ [][NextManager]_vars

\* the enhanced service under a clock that keeps running
SpecEnhancedLive == SpecEnhanced /\ WF_vars(Tick)

\* the creation requests of the enhanced service on a store in use
NextIntake ==
    \/ EnhancedCreateIncidentBadPriority
    \/ EnhancedCreateIncident

SpecIntake == InitIntake /\ [][NextIntake]_vars

\* create_incident called on several server processes at once
NextWorkers ==
    \/ \E w \in Workers : WorkerGenerateIncidentNumber(w)
    \/ \E w \in Workers : WorkerSelectTechnician(w)
    \/ \E w \in Workers : WorkerReadWorkload(w)
    \/ \E w \in Workers : WorkerWriteWorkload(w)
    \/ \E w \in Workers : WorkerInsertIncident(w)

SpecWorkers == Init /\ [][NextWorkers]_vars

\* the two predictors
NextPredict ==
    \/ ModelTrainFailurePredictor
    \/ ModelRestart
    \/ ModelPredictFailures
    \/ AdvancedTrainModels
    \/ AdvancedPredictFailure
    \/ AdvancedAssessCriticality

SpecPredict == Init /\ [][NextPredict]_vars

\* the analyses of sensor series and the team recommendations
NextAnalysis ==
    \/ RagAnalyzeTrend
    \/ SensorMetricsTrend
    \/ RagDetectAnomalies
    \/ HealthSummaryScore
    \/ TeamRecommendations

SpecAnalysis == InitAnalysis /\ [][NextAnalysis]_vars

\* the monitoring service on the event loop: a sleep that is over is resumed
NextMonitor ==
    \/ StartMonitoring
    \/ StartMonitoringAlreadyRunning
    \/ StopMonitoring
    \/ \E a \in Activities : SleepElapses(a)
    \/ \E a \in Activities : ScanCompletes(a)
    \/ \E a \in Activities : ScanFails(a)
    \/ \E a \in Activities : BackoffElapses(a)

SpecMonitor ==
    /\ Init
    /\ [][NextMonitor]_vars
    /\ \A a \in Activities : WF_vars(SleepElapses(a)) /\ WF_vars(BackoffElapses(a))

---------------------------------------------------------------------------
\* Properties of the incident lifecycle

\* C1: an incident becomes `completed` only from `in_progress` with an
\* assigned technician; in particular never directly from `pending`.
C1_CompletedOnlyViaInProgress ==
    [][\A i \in DOMAIN incidents :
          (incidents'[i].status = "completed" /\ incidents[i].status # "completed")
              => /\ incidents[i].status = "in_progress"
                 /\ incidents[i].assigned_technician # NoTech]_vars

\* C2: no incident is `in_progress` while its assigned technician is null.
C2_InProgressHasTechnician ==
    \A i \in DOMAIN incidents :
        incidents[i].status = "in_progress"
            => incidents[i].assigned_technician # NoTech

\* C3: `completed` and `cancelled` are terminal, and `cancelled` is entered
\* only from `pending` or `in_progress`.
C3_TerminalStatuses ==
    [][\A i \in DOMAIN incidents :
          /\ incidents[i].status \in {"completed", "cancelled"}
                => incidents'[i].status = incidents[i].status
          /\ (incidents'[i].status = "cancelled" /\ incidents[i].status # "cancelled")
                => incidents[i].status \in {"pending", "in_progress"}]_vars

\* C4: a call asking to complete a `pending` incident that has no technician
\* does not return success and does not complete the stored incident.
C4_InvalidTransitionRejected ==
    [][\A i \in DOMAIN incidents :
          (/\ incidents[i].status = "pending"
           /\ incidents[i].assigned_technician = NoTech
           /\ calls' = calls + 1)
              => /\ result' # Success(i, "completed")
                 /\ incidents'[i].status # "completed"]_vars

\* C5: every successful creation or status change of an incident appends
\* exactly one audit record for it.
C5_OneAuditPerTransition ==
    [][\A i \in DOMAIN incidencias' :
          (calls' = calls + 1 /\ result'.status = "success" /\ result'.incident_id = i)
              => audit_logs'[i] = (IF i \in DOMAIN audit_logs THEN audit_logs[i] ELSE 0) + 1]_vars

\* C6: the stored SLA deadline of every incident is its stored creation time
\* plus the SLA hours of its priority.
C6_SlaDeadlineExact ==
    \A i \in DOMAIN incidencias :
        incidencias[i].sla_deadline =
            incidencias[i].created_at + sla_hours[incidencias[i].prioridad] * TicksPerHour

\* C7: no operation changes the SLA deadline of a stored incident.
C7_SlaDeadlineImmutable ==
    [][\A i \in DOMAIN incidencias :
          /\ i \in DOMAIN incidencias'
          /\ incidencias'[i].sla_deadline = incidencias[i].sla_deadline]_vars

\* an incident that was finalized with a comment after its creation
C7_Witness ==
    \E i \in DOMAIN incidencias :
        /\ incidencias[i].estado = "finalizada"
        /\ incident_comments[i] > 0
        /\ incidencias[i].fecha_finalizacion > incidencias[i].created_at

Breached(i) ==
    /\ i \in DOMAIN incidencias
    /\ clock > incidencias[i].sla_deadline
    /\ incidencias[i].estado \notin {"finalizada", "cancelada"}

\* incident i is recorded as escalated
Escalated(i) ==
    /\ i \in DOMAIN incidencias
    /\ incidencias[i].estado = "escalated"

\* C9: an incident whose SLA deadline has passed while it is not terminal
\* eventually becomes escalated.
C9_BreachLeadsToEscalation ==
    \A i \in 1..MaxIncidents : Breached(i) ~> Escalated(i)

\* C10: the technician assigned to an incident is never replaced or removed
\* by a later operation.
C10_AssignmentRetained ==
    [][\A i \in DOMAIN incidents :
          /\ i \in DOMAIN incidents'
          /\ incidents'[i].assigned_technician = incidents[i].assigned_technician]_vars

\* an assigned incident that went through later status changes
C10_Witness ==
    \E i \in DOMAIN incidents :
        /\ incidents[i].assigned_technician # NoTech
        /\ incidents[i].status = "cancelled"
        /\ calls > 1

---------------------------------------------------------------------------
\* Properties of the automatic assignment

\* C11: for every request and every order in which the store returns the
\* technicians, automatic assignment yields no technician exactly when the
\* pool of available technicians is empty.
C11_NoTechnicianIffEmptyPool ==
    \A required \in Specialties, ubicacion \in Locations :
        \A order \in Orders(GetAvailableTechnicians(required)) :
            (AssignTechnicianAutomatically(order, current_workload, ubicacion, required)
                 = NoTech) <=> (Len(order) = 0)

\* C12: an incident created while automatic assignment found no technician
\* is stored `pendiente` with no technician, and the call returns success
\* with an explicit no-technician report.
C12_NoTechnicianReported ==
    [][\A i \in (DOMAIN incidencias') \ (DOMAIN incidencias) :
          incidencias'[i].asignado_a = NoTech
              => /\ incidencias'[i].estado = "pendiente"
                 /\ result'.status = "success"
                 /\ result'.message # ""]_vars

\* the order of the technicians' identities
TechnicianIdRank(t) == IF t = "tec1" THEN 1 ELSE 2

\* C13: the technician selected has the highest score of the pool; among the
\* technicians of highest score it has the lowest workload, and among those
\* the smallest identity.
C13_HighestScoreThenWorkloadThenId ==
    \A required \in Specialties, ubicacion \in Locations :
        \A order \in Orders(GetAvailableTechnicians(required)) :
            LET chosen == AssignTechnicianAutomatically(order, current_workload,
                                                        ubicacion, required)
                pool == GetAvailableTechnicians(required)
                Score(t) == CalculateTechnicianScore(t, current_workload[t],
                                                     ubicacion, required)
                top == {t \in pool : \A u \in pool : ~ScoreGt(Score(u), Score(t))}
                least == {t \in top : \A u \in top :
                             current_workload[t] <= current_workload[u]}
            IN  chosen # NoTech
                    => /\ chosen \in least
                       /\ \A u \in least :
                              TechnicianIdRank(chosen) <= TechnicianIdRank(u)

\* C14: for the same request and the same pool, the technician chosen does
\* not depend on the order in which the store returns the pool.
C14_ChoiceIndependentOfStoreOrder ==
    \A required \in Specialties, ubicacion \in Locations :
        \A o1, o2 \in Orders(GetAvailableTechnicians(required)) :
            AssignTechnicianAutomatically(o1, current_workload, ubicacion, required)
                = AssignTechnicianAutomatically(o2, current_workload, ubicacion, required)

---------------------------------------------------------------------------
\* Properties of the predictors

\* C15: the criticality evaluator returns the tier of
\* 0.4*failure_probability + 0.3*anomaly_score + 0.3*weight, with weights
\* critical 1.0, high 0.75, medium 0.5, low 0.25 and thresholds 0.8, 0.6, 0.4.
C15_CriticalityFormula ==
    request.op \in {"assess_criticality", "predict_failure"} =>
        LET failure_probability ==
                IF request.op = "assess_criticality"
                THEN request.failure_probability ELSE result.failure_probability
            anomaly_score ==
                IF request.op = "assess_criticality"
                THEN request.anomaly_score ELSE result.anomaly_score
            weight == CASE request.equipment_criticality = "critical" -> 100
                        [] request.equipment_criticality = "high" -> 75
                        [] request.equipment_criticality = "medium" -> 50
                        [] request.equipment_criticality = "low" -> 25
            score == 4 * failure_probability + 3 * anomaly_score + 3 * weight
            tier == IF score >= 800 THEN "critical"
                    ELSE IF score >= 600 THEN "high"
                    ELSE IF score >= 400 THEN "medium"
                    ELSE "low"
        IN  result.criticality = tier

\* C16: of two applications of the evaluator, the one whose failure
\* probability, anomaly score and equipment tier are all at least those of
\* the other has a score and a resulting tier that are at least the other's.
C16_CriticalityMonotone ==
    [][(request.op = "assess_criticality" /\ request'.op = "assess_criticality")
          => LET Rank(tier) == CASE tier = "low" -> 1
                                 [] tier = "medium" -> 2
                                 [] tier = "high" -> 3
                                 [] tier = "critical" -> 4
             IN  (/\ request.failure_probability <= request'.failure_probability
                  /\ request.anomaly_score <= request'.anomaly_score
                  /\ Rank(request.equipment_criticality)
                        <= Rank(request'.equipment_criticality))
                    => /\ result.score <= result'.score
                       /\ Rank(result.criticality) <= Rank(result'.criticality)]_vars

\* C17: every time-to-failure estimate returned is the step function of the
\* failure probability returned with it: > 0.9 one day, > 0.8 three days,
\* > 0.7 seven, > 0.6 fourteen, otherwise thirty.
C17_TimeToFailureSteps ==
    LET Days(probability) == IF probability > 90 THEN 1
                             ELSE IF probability > 80 THEN 3
                             ELSE IF probability > 70 THEN 7
                             ELSE IF probability > 60 THEN 14
                             ELSE 30
    IN  /\ request.op = "predict_failures"
              => \A k \in DOMAIN result.predictions :
                    result.predictions[k].days_until_failure
                        = Days(result.predictions[k].probability)
        /\ request.op = "predict_failure"
              => result.time_to_failure = 240 * Days(result.failure_probability)

\* C18: a prediction asked of a model that is neither trained nor loadable
\* does not return what a trained model that predicts no failure returns:
\* not an empty list of predictions, not a failure probability of 0.0.
C18_ModelUnavailableIsDistinct ==
    [][/\ (request'.op = "predict_failures" /\ ~is_trained /\ ~model_files)
             => result'.predictions # <<>>
       /\ (request'.op = "predict_failure" /\ ~advanced_fitted)
             => result'.failure_probability # 0]_vars

---------------------------------------------------------------------------
\* Properties of the technician score and of the monitoring tasks

\* C19: the experience component of the score of the technician chosen for
\* an incident lies in [0, 1] (here [0, 25000]: it carries its weight 0.25
\* and is in units of 1/100000).
C19_ExperienceComponentBounded ==
    \A i \in DOMAIN incidents :
        LET t == incidents[i].assigned_technician
        IN  t # NoTech
                => LET component == ExperienceScore(ManagerTechRow[t].experience_years,
                                                    ManagerTechRow[t].skill_level,
                                                    incidents[i].priority)
                   IN  0 <= component /\ component <= 25000

\* C20: while monitoring runs every activity has a live task; a failure of a
\* scan pass puts its task into the back-off sleep and changes no other
\* task; and a task in its back-off sleep scans again unless monitoring is
\* stopped.
C20_ActivitiesSurviveFailures ==
    /\ [](is_running =>
             \A a \in Activities :
                monitoring_tasks[a].at \in {"sleeping", "scanning", "backoff"})
    /\ [][\A a \in Activities :
             (/\ monitoring_tasks[a].at = "scanning"
              /\ monitoring_tasks'[a].failures > monitoring_tasks[a].failures)
                 => /\ monitoring_tasks'[a].at = "backoff"
                    /\ \A b \in Activities \ {a} :
                          monitoring_tasks'[b] = monitoring_tasks[b]]_vars
    /\ \A a \in Activities :
          (monitoring_tasks[a].at = "backoff")
              ~> (monitoring_tasks[a].at = "scanning" \/ ~is_running)

\* one activity scans again after a failure of its own while another one,
\* which never failed, is in a scan pass too
C20_Witness ==
    /\ is_running
    /\ \E a, b \in Activities :
          /\ a # b
          /\ monitoring_tasks[a].at = "scanning"
          /\ monitoring_tasks[a].failures > 0
          /\ monitoring_tasks[b].at = "scanning"
          /\ monitoring_tasks[b].failures = 0

---------------------------------------------------------------------------
\* Properties of create_incident under concurrent calls

\* C22: when the first two calls of create_incident overlap and both have
\* chosen and charged the same technician, that technician's
\* current_workload is its initial value, 0, plus 2.
C22_NoLostUpdate ==
    \A t \in Technicians :
        (/\ calls = 0
         /\ \A w \in Workers : worker[w].pc = "charged" /\ worker[w].assigned = t)
            => current_workload[t] = 2

\* C27: no two stored incidents have the same numero_incidencia.
C27_UniqueIncidentNumber ==
    \A i, j \in DOMAIN incidencias :
        i # j => incidencias[i].numero_incidencia # incidencias[j].numero_incidencia

\* a call that overlapped another one was refused its insert because its
\* number had been taken, after an incident had been stored
C27_Witness ==
    /\ result = Error("duplicate key value violates unique constraint")
    /\ DOMAIN incidencias # {}

---------------------------------------------------------------------------
\* Properties of the technicians' workload

\* C29: a call that returns an error has changed no technician's
\* current_workload.
C29_NoPartialEffect ==
    [][(calls' = calls + 1 /\ result'.status = "error")
          => current_workload' = current_workload]_vars

\* C30: each technician's current_workload is the number of incidents
\* assigned to that technician that are `pendiente` or `en_proceso`.
C30_WorkloadCountsOpenIncidents ==
    \A t \in Technicians :
        current_workload[t] =
            Cardinality({i \in DOMAIN incidencias :
                            /\ incidencias[i].asignado_a = t
                            /\ incidencias[i].estado \in {"pendiente", "en_proceso"}})

---------------------------------------------------------------------------
\* Properties of the completion of an incident

\* C23: a step that takes an incident from `in_progress` to `completed`
\* records an actual duration and resolution notes, and appends exactly one
\* performance record, of that incident, whose efficiency is
\* min(1.0, estimated / actual).
C23_CompletionRecorded ==
    [][\A i \in DOMAIN incidents :
          (incidents[i].status = "in_progress" /\ incidents'[i].status = "completed")
              => /\ incidents'[i].actual_duration # NoDuration
                 /\ incidents'[i].resolution_notes # NoNotes
                 /\ Len(incident_performance') = Len(incident_performance) + 1
                 /\ LET record == incident_performance'[Len(incident_performance')]
                    IN  /\ record.incident_id = i
                        /\ record.efficiency =
                              Efficiency(incidents'[i].estimated_duration,
                                         incidents'[i].actual_duration)]_vars

---------------------------------------------------------------------------
\* Properties of the analysis of sensor series

\* C24: a channel whose valid readings, at least 2, are strictly increasing
\* is classified `increasing`, and one whose valid readings are strictly
\* decreasing is classified `decreasing`.
C24_TrendMatchesMonotoneSeries ==
    (request.op \in {"analyze_trend", "calculate_trend"} /\ result # NoResult) =>
        LET y == DropNa(request.series)
        IN  Len(y) >= 2 =>
                /\ (\A i \in 1..(Len(y) - 1) : y[i] < y[i + 1])
                      => result.trend = "increasing"
                /\ (\A i \in 1..(Len(y) - 1) : y[i] > y[i + 1])
                      => result.trend = "decreasing"

\* the valid readings of a column are all equal
ZeroVariance(column) ==
    LET values == DropNa(column)
    IN  values # <<>> /\ \A i, j \in DOMAIN values : values[i] = values[j]

\* C25: for a channel whose valid readings are all equal, no z-score is
\* computed by dividing by the zero standard deviation, the anomaly
\* detection reports no anomaly of that channel, and the health score is the
\* one the other channels alone give.
C25_ZeroVarianceNoAnomaly ==
    (request.op \in {"detect_anomalies", "health_score"} /\ result # NoResult) =>
        \A c \in ChannelNames :
            ZeroVariance(request.df[c]) =>
                /\ \A k \in DOMAIN result.z_scores[c] : result.z_scores[c][k][2] # 0
                /\ request.op = "detect_anomalies" =>
                      \A k \in DOMAIN result.anomalies : result.anomalies[k].column # c
                /\ request.op = "health_score" =>
                      LET others == CalculateHealthScore(
                                        [request.df EXCEPT ![c] = [i \in 1..FrameRows |-> NaN]])
                      IN  result.health_score[1] * others[2]
                              = others[1] * result.health_score[2]

\* the anomaly detection ran on a frame with a channel of ten or more equal
\* readings and another channel in which it found an anomaly
C25_Witness ==
    /\ request.op = "detect_anomalies"
    /\ result # NoResult
    /\ \E c \in ChannelNames :
          /\ ZeroVariance(request.df[c])
          /\ Len(DropNa(request.df[c])) >= MinPoints
    /\ result.anomalies # <<>>

---------------------------------------------------------------------------
\* Properties of the team recommendations

\* C26: get_team_recommendations returns at most 3 entries, each a team of
\* exactly team_size technicians with total_score = average individual
\* score x (distinct specialties / team size), in the order of
\* non-increasing total_score, also when fewer than team_size technicians
\* are available.
C26_TeamsOfTeamSize ==
    (request.op = "team_recommendations" /\ result # NoResult) =>
        /\ Len(result.teams) <= 3
        /\ \A k \in DOMAIN result.teams :
              /\ "team" \in DOMAIN result.teams[k]
              /\ Len(result.teams[k].team) = request.team_size
              /\ LET team == result.teams[k].team
                     total == SumScores(team, 1)
                     distinct == Cardinality({ManagerTechRow[team[m].technician].specialty :
                                                 m \in DOMAIN team})
                     expected == <<total[1] * distinct,
                                   total[2] * request.team_size * request.team_size>>
                 IN  result.teams[k].total_score[1] * expected[2]
                         = expected[1] * result.teams[k].total_score[2]
              /\ k > 1 => ~ScoreGt(result.teams[k].total_score,
                                   result.teams[k - 1].total_score)

====
